---- MODULE Spec2Model ----
(***************************************************************************)
(* The digital-life-lessons REST server as a state machine.                *)
(*                                                                         *)
(* State: the two MongoDB collections the handlers use (users, lessons),   *)
(* the requests that are between two awaits (one record per request slot), *)
(* and the response written by the last step.  One action per await-to-    *)
(* await segment of a handler: a segment reads or writes the store once,   *)
(* so segments of different requests interleave exactly where Node may     *)
(* switch between them.  Middleware (verifyJWT, verifyAdmin) is part of    *)
(* the first segment of the route it guards.                               *)
(*                                                                         *)
(* src/unnamed/part_000 is the final revision; src/unnamed/part_001 and    *)
(* src/index.js are earlier ones.  rev selects the revision.               *)
(***************************************************************************)
EXTENDS Integers, Sequences, FiniteSets, TLC

VARIABLES
    rev,                \* which revision of the server is running
    userCollection,     \* sequence of user documents, in insertion order; _id = index
    lessonsCollection,  \* lesson _id -> <<document>>, or <<>> where there is none
    nextLessonId,       \* the next store-generated lesson _id
    proc,               \* request slot -> the locals a request holds between awaits
    resp,               \* the response sent by the last step (NoResp: none sent)
    hist                \* history: granted, the sessions whose reconciliation has
                        \* modified a user; submitted, per lesson, the comments it
                        \* was created with and the comments pushed to it, in order

vars == <<rev, userCollection, lessonsCollection, nextLessonId, proc, resp, hist>>

(***************************************************************************)
(* Bounds                                                                  *)
(***************************************************************************)
MaxUsers == 3
MaxLessons == 2
MaxCreated == 1
MaxArr == 2
MaxComments == 2

Procs == {"r1", "r2"}
Emails == {"a@x", "b@x"}

(***************************************************************************)
(* Values                                                                  *)
(***************************************************************************)
\* JS null / undefined: the driver serialises an undefined value as BSON null
Null == "null"
\* a field the stored document does not have
Missing == "missing"

\* MongoDB equality match {field: q}: a null query value matches documents
\* whose field is null or absent
MatchEq(v, q) == IF q = Null THEN v \in {Null, Missing} ELSE v = q

Revisions == {"final", "mid", "first"}

(***************************************************************************)
(* External collaborators                                                  *)
(***************************************************************************)
\* Authorization header: absent, rejected by the identity verifier, or
\* accepted with a decoded token whose email claim may be absent
Tokens == [kind : {"valid"}, email : Emails \cup {Null}]
            \cup [kind : {"absent", "rejected"}, email : {Null}]

\* Checkout sessions the payment gateway knows: one paid, two not yet paid
\* (payment_intent is null until the session is confirmed, or, with an older
\* API version of the gateway, set from the start), and an id the gateway
\* rejects
SessionIds == {"cs_paid", "cs_open", "cs_open_pi", "cs_unknown"}

stripeRetrieve(sessionId) ==
    CASE sessionId = "cs_paid" ->
           [found |-> TRUE, payment_status |-> "paid",
            payment_intent |-> "pi_1", customer_email |-> "b@x"]
      [] sessionId = "cs_open" ->
           [found |-> TRUE, payment_status |-> "unpaid",
            payment_intent |-> Null, customer_email |-> "b@x"]
      [] sessionId = "cs_open_pi" ->
           [found |-> TRUE, payment_status |-> "unpaid",
            payment_intent |-> "pi_2", customer_email |-> "b@x"]
      [] OTHER ->
           [found |-> FALSE, payment_status |-> Null,
            payment_intent |-> Null, customer_email |-> Null]

(***************************************************************************)
(* Middleware                                                              *)
(***************************************************************************)
\* the request context after verifyJWT: ok = next() was called
verifyJWT(token) ==
    IF token.kind = "absent"
    THEN [ok |-> FALSE, tokenEmail |-> Null]
    ELSE IF token.kind = "rejected"
         THEN [ok |-> FALSE, tokenEmail |-> Null]
         ELSE [ok |-> TRUE, tokenEmail |-> token.email]

\* index of the first document of a collection (a sequence) matching P, 0 if none
FirstIdx(coll, P(_)) ==
    IF \E i \in 1..Len(coll) : P(coll[i])
    THEN CHOOSE i \in 1..Len(coll) :
            P(coll[i]) /\ \A j \in 1..(i - 1) : ~P(coll[j])
    ELSE 0

\* verifyAdmin: the final revision reads req.tokenEmail, the earlier ones read
\* req.decodedEmail, which nothing sets
verifyAdminEmail(rv, req) == IF rv = "final" THEN req.tokenEmail ELSE Null

verifyAdmin(rv, req, users) ==
    LET email == verifyAdminEmail(rv, req)
        MatchesEmail(u) == MatchEq(u.email, email)
        i == FirstIdx(users, MatchesEmail)
    IN  i # 0 /\ users[i].role = "admin"

(***************************************************************************)
(* Request bodies                                                          *)
(***************************************************************************)
\* POST /users bodies: the fields the handler or a later handler reads
RegisterBodies == [email : Emails, isPremium : BOOLEAN]

\* PATCH /users and PATCH /user/:id bodies: any subset of fields; one
\* representative per field and value, the empty profile edit, and a body
\* that names the immutable _id
IdentityBodies ==
    {[name |-> "n"]}
      \cup {[email |-> e] : e \in Emails}
      \cup {[role |-> r] : r \in {"admin", "user"}}
      \cup {[_id |-> 0]}

PaymentBodies ==
    {[name |-> "n"]}
      \cup {[isPremium |-> b] : b \in BOOLEAN}
      \cup {[transactionId |-> "pi_2"]}

\* update operator {$set: body} on a user document
SetUser(doc, body) ==
    [email |-> IF "email" \in DOMAIN body THEN body.email ELSE doc.email,
     role |-> IF "role" \in DOMAIN body THEN body.role ELSE doc.role,
     isPremium |-> IF "isPremium" \in DOMAIN body THEN body.isPremium
                   ELSE doc.isPremium,
     transactionId |-> IF "transactionId" \in DOMAIN body
                       THEN body.transactionId ELSE doc.transactionId]

\* userCollection.updateOne(query, {$set: body}): the first matching document
\* is updated; i = 0: none matches
UpdateOneUser(users, i, body) ==
    IF i = 0 THEN users ELSE [users EXCEPT ![i] = SetUser(users[i], body)]

(***************************************************************************)
(* Responses and request slots                                             *)
(***************************************************************************)
\* the query string of a listing request with nothing asked for
\* (limit: <<>> when omitted, <<n>> when given; search: the characters)
NoQuery == [category |-> Null, visibility |-> Null, search |-> <<>>,
            skip |-> 0, limit |-> <<>>]

\* arg: the email or session id the request is about; doc: the user document
\* in the body; id: the lesson addressed; query, total and result (lesson
\* ids): the listing asked for and returned; before (history): the
\* array a toggle found; raced (history): a toggle of the same principal on
\* the same lesson, which had read the same membership, wrote between this
\* toggle's read and its write
NoResp == [op |-> "none", code |-> 0, msg |-> "", arg |-> Null, doc |-> <<>>,
           id |-> 0, before |-> <<>>, raced |-> FALSE,
           query |-> NoQuery, total |-> 0, result |-> <<>>]
Response(op, code, msg, arg, doc) ==
    [NoResp EXCEPT !.op = op, !.code = code, !.msg = msg, !.arg = arg,
                   !.doc = doc]
LessonResponse(op, code, msg, arg, id) ==
    [NoResp EXCEPT !.op = op, !.code = code, !.msg = msg, !.arg = arg,
                   !.id = id]

\* the locals of a request between two awaits: email, sess, id and query are
\* the request's own values, update is the update document the toggle built
\* from its read, total the count the listing read, raced is history
Idle == [pc |-> "idle", email |-> Null, sess |-> Null, id |-> 0,
         update |-> Null, raced |-> FALSE, query |-> NoQuery, total |-> 0]

NoHistory == [granted |-> {}, submitted |-> [id \in 1..MaxLessons |-> <<>>]]

InFlight(pcs) == Cardinality({q \in Procs : proc[q].pc \in pcs})

(***************************************************************************)
(* POST /users                                                             *)
(***************************************************************************)
\* faulty variant: the lookup looks at the newest record only
Register_findOne_newestOnly(p) ==
    /\ proc[p].pc = "idle"
    /\ \E email \in Emails :
         LET n == Len(userCollection)
         IN  IF n # 0 /\ userCollection[n].email = email
             THEN /\ resp' = Response("register", 200, "User already exists",
                                      email, <<userCollection[n]>>)
                  /\ UNCHANGED proc
             ELSE /\ Len(userCollection) + InFlight({"reg_insert"}) < MaxUsers
                  /\ proc' = [proc EXCEPT ![p] =
                                [Idle EXCEPT !.pc = "reg_insert", !.email = email]]
                  /\ resp' = NoResp
    /\ UNCHANGED <<rev, userCollection, lessonsCollection, nextLessonId, hist>>

\* user.role = "user"; findOne({email}); existing: 200 with the record
Register_findOne(p) ==
    /\ proc[p].pc = "idle"
    /\ \E email \in Emails :
         LET MatchesEmail(u) == MatchEq(u.email, email)
             i == FirstIdx(userCollection, MatchesEmail)
         IN  IF i # 0
             THEN /\ resp' = Response("register", 200, "User already exists",
                                      email, <<userCollection[i]>>)
                  /\ UNCHANGED proc
             ELSE /\ Len(userCollection) + InFlight({"reg_insert"}) < MaxUsers
                  /\ proc' = [proc EXCEPT ![p] =
                                [Idle EXCEPT !.pc = "reg_insert", !.email = email]]
                  /\ resp' = NoResp
    /\ UNCHANGED <<rev, userCollection, lessonsCollection, nextLessonId, hist>>

\* insertOne(user); 201
Register_insertOne(p, Bodies) ==
    /\ proc[p].pc = "reg_insert"
    /\ \E body \in Bodies :
         /\ body.email = proc[p].email
         /\ userCollection' = Append(userCollection,
                [email |-> body.email, role |-> "user",
                 isPremium |-> body.isPremium, transactionId |-> Missing])
         /\ resp' = Response("register", 201, "Data is stored to database",
                             body.email, <<>>)
    /\ proc' = [proc EXCEPT ![p] = Idle]
    /\ UNCHANGED <<rev, lessonsCollection, nextLessonId, hist>>

(***************************************************************************)
(* PATCH /users (final revision only)                                      *)
(***************************************************************************)
\* the query of the profile update: {} when the token carries no email
UpdateProfileIdx(users, email) ==
    LET MatchesEmail(u) == MatchEq(u.email, email)
        MatchesAll(u) == TRUE
    IN  IF email # Null THEN FirstIdx(users, MatchesEmail)
        ELSE FirstIdx(users, MatchesAll)

UpdateProfile(p, Bodies) ==
    /\ rev = "final"
    /\ proc[p].pc = "idle"
    /\ \E token \in Tokens, body \in Bodies :
         LET req == verifyJWT(token)
             i == UpdateProfileIdx(userCollection, req.tokenEmail)
         IN  IF ~req.ok
             THEN /\ resp' = Response("profile", 401, "Unauthorized Access!",
                                      Null, <<>>)
                  /\ UNCHANGED userCollection
             ELSE IF "_id" \in DOMAIN body /\ i # 0
                  THEN /\ resp' = Response("profile", 400,
                                           "Failed to update profile",
                                           req.tokenEmail, <<>>)
                       /\ UNCHANGED userCollection
                  ELSE /\ userCollection' = UpdateOneUser(userCollection, i, body)
                       /\ resp' = Response("profile", 200, "Update Profile",
                                           req.tokenEmail, <<>>)
    /\ UNCHANGED <<rev, lessonsCollection, nextLessonId, proc, hist>>

(***************************************************************************)
(* PATCH /user/:id (final revision only): verifyJWT, verifyAdmin, handler  *)
(***************************************************************************)
\* the middleware segment of an admin route: 401, 403, or on to the handler
verifyRoute(p, op, handlerPc) ==
    /\ proc[p].pc = "idle"
    /\ \E token \in Tokens :
         LET req == verifyJWT(token)
         IN  IF ~req.ok
             THEN /\ resp' = Response(op, 401, "Unauthorized Access!",
                                      Null, <<>>)
                  /\ UNCHANGED proc
             ELSE IF ~verifyAdmin(rev, req, userCollection)
                  THEN /\ resp' = Response(op, 403, "Forbidden access",
                                           req.tokenEmail, <<>>)
                       /\ UNCHANGED proc
                  ELSE /\ proc' = [proc EXCEPT ![p] =
                                     [Idle EXCEPT !.pc = handlerPc,
                                         !.email = req.tokenEmail]]
                       /\ resp' = NoResp
    /\ UNCHANGED <<rev, userCollection, lessonsCollection, nextLessonId, hist>>

AdminUpdateUser_verify(p) ==
    /\ rev = "final"
    /\ verifyRoute(p, "adminUser", "adm_user")

AdminUpdateUser_updateOne(p, Bodies) ==
    /\ proc[p].pc = "adm_user"
    /\ \E id \in 1..MaxUsers, body \in Bodies :
         LET i == IF id <= Len(userCollection) THEN id ELSE 0
         IN  IF "_id" \in DOMAIN body /\ i # 0
             THEN /\ resp' = Response("adminUser", 400, "Failed to update profile",
                                      proc[p].email, <<>>)
                  /\ UNCHANGED userCollection
             ELSE /\ userCollection' = UpdateOneUser(userCollection, i, body)
                  /\ resp' = Response("adminUser", 200, "Update Profile",
                                      proc[p].email, <<>>)
    /\ proc' = [proc EXCEPT ![p] = Idle]
    /\ UNCHANGED <<rev, lessonsCollection, nextLessonId, hist>>

\* verifyJWT and verifyAdmin as every revision mounts them in front of its
\* admin handlers, and the handler behind them.  (The earlier revisions
\* mount the pair on "users/:id/role" only.)
AdminGate_verify(p) == verifyRoute(p, "adminGate", "adm_gate")

AdminGate_handler(p) ==
    /\ proc[p].pc = "adm_gate"
    /\ resp' = Response("adminGate", 200, "", proc[p].email, <<>>)
    /\ proc' = [proc EXCEPT ![p] = Idle]
    /\ UNCHANGED <<rev, userCollection, lessonsCollection, nextLessonId, hist>>

(***************************************************************************)
(* GET /users/:email/role (every revision)                                 *)
(***************************************************************************)
\* the body sent for the record found (<<>>: none): user?.role || "user",
\* and, from the mid revision on, user?.isPremium || false
RoleBody(rv, found) ==
    LET role == IF found # <<>> /\ found[1].role \notin {Null, Missing}
                THEN found[1].role ELSE "user"
        isPremium == IF found # <<>> THEN found[1].isPremium ELSE FALSE
    IN  IF rv = "first" THEN [role |-> role]
        ELSE [role |-> role, isPremium |-> isPremium]

RoleLookup(p) ==
    /\ proc[p].pc = "idle"
    /\ \E email \in Emails :
         LET MatchesEmail(u) == MatchEq(u.email, email)
             i == FirstIdx(userCollection, MatchesEmail)
             found == IF i = 0 THEN <<>> ELSE <<userCollection[i]>>
         IN  resp' = Response("roleLookup", 200, "", email,
                              <<RoleBody(rev, found)>>)
    /\ UNCHANGED <<rev, userCollection, lessonsCollection, nextLessonId,
                   proc, hist>>

\* the body of a response that is not JSON (the framework's own error page)
HtmlBody == "<html>"

\* what a rejected promise of an async middleware leads to; verifyAdmin
\* awaits findOne outside any try: the process exits on the unhandled
\* rejection, or the rejection is only logged and the request is never
\* answered, or the framework forwards it to its default error handler,
\* depending on the versions of the runtime and of the framework
UnhandledRejectionOutcomes == {"exit", "hang", "defaultHandler"}

Down == [Idle EXCEPT !.pc = "down"]

\* verifyJWT accepts the credential and the findOne of verifyAdmin fails
AdminGate_findOneRejects(p) ==
    /\ proc[p].pc = "idle"
    /\ \E token \in Tokens, outcome \in UnhandledRejectionOutcomes :
         /\ verifyJWT(token).ok
         /\ CASE outcome = "exit" ->
                   /\ proc' = [q \in Procs |-> Down]
                   /\ resp' = NoResp
              [] outcome = "hang" ->
                   /\ proc' = [proc EXCEPT ![p] = [Idle EXCEPT !.pc = "hung"]]
                   /\ resp' = NoResp
              [] OTHER ->
                   /\ resp' = Response("adminGate", 500, HtmlBody,
                                       verifyJWT(token).tokenEmail, <<>>)
                   /\ UNCHANGED proc
    /\ UNCHANGED <<rev, userCollection, lessonsCollection, nextLessonId, hist>>

(***************************************************************************)
(* PATCH /users/:id/role against the route the revisions mount             *)
(***************************************************************************)
\* the route as mounted: app.patch("users/:id/role", ...) in the final and
\* the mid revision, app.get("users/:id/role", ...) in the first; rooted:
\* the path begins with "/"
MountedRoleRoute(rv) ==
    [method |-> IF rv = "first" THEN "GET" ELSE "PATCH",
     rooted |-> FALSE,
     segments |-> <<"users", ":id", "role">>]

\* the router's match of a request (its path always begins with "/") against
\* a mounted route: same method, the pattern anchored at the start of the
\* path, and segment by segment the same word or a parameter
RouteMatches(route, method, segments) ==
    /\ route.method = method
    /\ route.rooted
    /\ Len(route.segments) = Len(segments)
    /\ \A i \in 1..Len(segments) :
          route.segments[i] = segments[i] \/ route.segments[i] = ":id"

\* a PATCH /users/:id/role request: the middleware of the route when the
\* router matches it, else the router's own 404 page
UpdateRole_request(p) ==
    IF RouteMatches(MountedRoleRoute(rev), "PATCH", <<"users", "1", "role">>)
    THEN verifyRoute(p, "updateRole", "adm_role")
    ELSE /\ proc[p].pc = "idle"
         /\ \E token \in Tokens :
              resp' = Response("updateRole", 404, HtmlBody,
                               verifyJWT(token).tokenEmail, <<>>)
         /\ UNCHANGED <<rev, userCollection, lessonsCollection, nextLessonId,
                        proc, hist>>

\* the handler of the route: {$set: {role: data.role}} on the user of the id
UpdateRole_updateOne(p) ==
    /\ proc[p].pc = "adm_role"
    /\ \E id \in 1..MaxUsers, role \in {"admin", "user"} :
         LET i == IF id <= Len(userCollection) THEN id ELSE 0
         IN  /\ userCollection' =
                  UpdateOneUser(userCollection, i, [role |-> role])
             /\ resp' = [Response("updateRole", 200, "User role updated",
                                  proc[p].email, <<[role |-> role]>>)
                           EXCEPT !.id = id]
    /\ proc' = [proc EXCEPT ![p] = Idle]
    /\ UNCHANGED <<rev, lessonsCollection, nextLessonId, hist>>

(***************************************************************************)
(* PATCH /session-status (final and mid revisions)                         *)
(***************************************************************************)
\* retrieve the session, findOne({transactionId}); existing: "already processed"
SessionStatus_findOne(p) ==
    /\ rev \in {"final", "mid"}
    /\ proc[p].pc = "idle"
    /\ \E sessionId \in SessionIds :
         LET session == stripeRetrieve(sessionId)
             transactionId == session.payment_intent
             MatchesTx(u) == MatchEq(u.transactionId, transactionId)
             existingPayment == FirstIdx(userCollection, MatchesTx)
         IN  IF ~session.found
             THEN /\ resp' = Response("session", 500,
                        "Failed to retrieve Stripe checkout session",
                        sessionId, <<>>)
                  /\ UNCHANGED proc
             ELSE IF existingPayment # 0
                  THEN /\ resp' = Response("session", 200,
                                           "Payment already processed",
                                           sessionId, <<>>)
                       /\ UNCHANGED proc
                  ELSE IF session.payment_status = "paid"
                       THEN /\ proc' = [proc EXCEPT ![p] =
                                          [Idle EXCEPT !.pc = "ss_update",
                                                       !.sess = sessionId]]
                            /\ resp' = NoResp
                       ELSE \* no branch responds: the request is left open
                            /\ resp' = Response("session", 0, "no response",
                                                sessionId, <<>>)
                            /\ UNCHANGED proc
    /\ UNCHANGED <<rev, userCollection, lessonsCollection, nextLessonId, hist>>

\* a record carries the transaction id of the session: what the findOne of
\* the "already processed" check would find
AlreadyProcessed(users, sessionId) ==
    \E i \in 1..Len(users) :
        MatchEq(users[i].transactionId, stripeRetrieve(sessionId).payment_intent)

\* the write of a handler that looked again: check and update in one step
SessionStatus_updateOne_recheck(p) ==
    /\ proc[p].pc = "ss_update"
    /\ LET session == stripeRetrieve(proc[p].sess)
           MatchesEmail(u) == MatchEq(u.email, session.customer_email)
           i == FirstIdx(userCollection, MatchesEmail)
       IN  IF AlreadyProcessed(userCollection, proc[p].sess)
           THEN /\ resp' = Response("session", 200,
                                    "Payment already processed",
                                    proc[p].sess, <<>>)
                /\ UNCHANGED <<userCollection, hist>>
           ELSE /\ userCollection' = UpdateOneUser(userCollection, i,
                       [isPremium |-> TRUE,
                        transactionId |-> session.payment_intent])
                /\ hist' = IF i # 0
                           THEN [hist EXCEPT !.granted = @ \cup {proc[p].sess}]
                           ELSE hist
                /\ resp' = Response("session", 200, "success",
                                    proc[p].sess, <<>>)
    /\ proc' = [proc EXCEPT ![p] = Idle]
    /\ UNCHANGED <<rev, lessonsCollection, nextLessonId>>

\* updateOne({email: customer}, {$set: {isPremium: true, transactionId}})
SessionStatus_updateOne(p) ==
    /\ proc[p].pc = "ss_update"
    /\ LET session == stripeRetrieve(proc[p].sess)
           MatchesEmail(u) == MatchEq(u.email, session.customer_email)
           i == FirstIdx(userCollection, MatchesEmail)
       IN  /\ userCollection' = UpdateOneUser(userCollection, i,
                  [isPremium |-> TRUE, transactionId |-> session.payment_intent])
           /\ hist' = IF i # 0
                      THEN [hist EXCEPT !.granted = @ \cup {proc[p].sess}]
                      ELSE hist
           /\ resp' = [Response("session", 200, "success", proc[p].sess, <<>>)
                         EXCEPT !.raced = AlreadyProcessed(userCollection,
                                                           proc[p].sess)]
    /\ proc' = [proc EXCEPT ![p] = Idle]
    /\ UNCHANGED <<rev, lessonsCollection, nextLessonId>>

(***************************************************************************)
(* Lessons                                                                 *)
(***************************************************************************)
\* A lesson document: the fields a handler reads or writes by name.  An
\* absent array field reads as the empty array (lesson.likes?.includes is
\* falsy, $addToSet and $push create the array); title is a string as the
\* sequence of its characters; createdAt 0 and category Missing: absent.
EmptyLesson ==
    [visibility |-> Missing, category |-> Missing, title |-> <<>>,
     createdAt |-> 0, featured |-> FALSE,
     likes |-> <<>>, favorites |-> <<>>, comments |-> <<>>]

\* update operator {$set: body} on a lesson document
SetLesson(doc, body) ==
    [visibility |-> IF "visibility" \in DOMAIN body THEN body.visibility
                    ELSE doc.visibility,
     category |-> IF "category" \in DOMAIN body THEN body.category
                  ELSE doc.category,
     title |-> IF "title" \in DOMAIN body THEN body.title ELSE doc.title,
     createdAt |-> IF "createdAt" \in DOMAIN body THEN body.createdAt
                   ELSE doc.createdAt,
     featured |-> IF "featured" \in DOMAIN body THEN body.featured
                  ELSE doc.featured,
     likes |-> IF "likes" \in DOMAIN body THEN body.likes ELSE doc.likes,
     favorites |-> IF "favorites" \in DOMAIN body THEN body.favorites
                   ELSE doc.favorites,
     comments |-> IF "comments" \in DOMAIN body THEN body.comments
                  ELSE doc.comments]

\* ids a request can name among the first n: 0 stands for a string that
\* new ObjectId() rejects
LessonIdParams(n) == 0..n

LessonExists(lessons, id) == id \in 1..MaxLessons /\ lessons[id] # <<>>

\* lessonsCollection.updateOne({_id}, u): no document matches a missing id
UpdateOneLesson(lessons, id, U(_)) ==
    IF LessonExists(lessons, id)
    THEN [lessons EXCEPT ![id] = <<U(lessons[id][1])>>]
    ELSE lessons

\* Array.prototype.includes on a stored array: an absent email claim is
\* undefined, and no stored element (BSON has null, not undefined) equals it
includes(arr, email) ==
    email # Null /\ \E i \in 1..Len(arr) : arr[i] = email

\* the update document a toggle builds from the lesson it read
ToggleUpdate(arr, email) ==
    IF includes(arr, email) THEN "$pull" ELSE "$addToSet"

\* $pull removes every element equal to the value, $addToSet appends the
\* value unless an element equals it, $push appends
ApplyArrayUpdate(arr, update, value) ==
    LET Differs(x) == x # value
    IN  CASE update = "$pull" -> SelectSeq(arr, Differs)
          [] update = "$addToSet" ->
               IF \E i \in 1..Len(arr) : arr[i] = value THEN arr
               ELSE Append(arr, value)
          [] OTHER -> Append(arr, value)

\* arrays of one email, as a request body can carry them
ArrayBodies == UNION {[1..n -> {"a@x"}] : n \in 0..MaxArr}

ReactionBodies ==
    {[accessLevel |-> "free"]}
      \cup {[likes |-> a] : a \in ArrayBodies}
      \cup {[favorites |-> <<"b@x">>]}

(***************************************************************************)
(* POST /lessons, PATCH /lessons/:id, DELETE /lessons/:id                  *)
(***************************************************************************)
CreateLesson(p, TokenSet, Bodies, cap) ==
    /\ proc[p].pc = "idle"
    /\ \E token \in TokenSet, body \in Bodies :
         LET req == verifyJWT(token)
         IN  IF ~req.ok
             THEN /\ resp' = LessonResponse("create", 401,
                                            "Unauthorized Access!", Null, 0)
                  /\ UNCHANGED <<lessonsCollection, nextLessonId, hist>>
             ELSE /\ nextLessonId <= cap
                  /\ lessonsCollection' =
                       [lessonsCollection EXCEPT ![nextLessonId] =
                          <<SetLesson(EmptyLesson, body)>>]
                  /\ nextLessonId' = nextLessonId + 1
                  /\ hist' = [hist EXCEPT !.submitted[nextLessonId] =
                                SetLesson(EmptyLesson, body).comments]
                  /\ resp' = LessonResponse("create", 200, "Lesson created",
                                            req.tokenEmail, 0)
    /\ UNCHANGED <<rev, userCollection, proc>>

UpdateLesson(p, TokenSet, Bodies, cap) ==
    /\ rev = "final"
    /\ proc[p].pc = "idle"
    /\ \E token \in TokenSet, id \in LessonIdParams(cap), body \in Bodies :
         LET req == verifyJWT(token)
             Set(doc) == SetLesson(doc, body)
         IN  IF ~req.ok
             THEN /\ resp' = LessonResponse("update", 401,
                                            "Unauthorized Access!", Null, 0)
                  /\ UNCHANGED lessonsCollection
             ELSE IF id = 0
                  THEN /\ resp' = LessonResponse("update", 400,
                                     "Can't update data to database",
                                     req.tokenEmail, 0)
                       /\ UNCHANGED lessonsCollection
                  ELSE /\ lessonsCollection' =
                            UpdateOneLesson(lessonsCollection, id, Set)
                       /\ resp' = LessonResponse("update", 200, "Data Updated",
                                                 req.tokenEmail, 0)
    /\ UNCHANGED <<rev, userCollection, nextLessonId, proc, hist>>

DeleteLesson(p, TokenSet, cap) ==
    /\ rev = "final"
    /\ proc[p].pc = "idle"
    /\ \E token \in TokenSet, id \in LessonIdParams(cap) :
         LET req == verifyJWT(token)
         IN  IF ~req.ok
             THEN /\ resp' = LessonResponse("delete", 401,
                                            "Unauthorized Access!", Null, 0)
                  /\ UNCHANGED lessonsCollection
             ELSE IF id = 0
                  THEN /\ resp' = LessonResponse("delete", 400,
                                     "Can't store report to database",
                                     req.tokenEmail, 0)
                       /\ UNCHANGED lessonsCollection
                  ELSE /\ lessonsCollection' =
                            IF LessonExists(lessonsCollection, id)
                            THEN [lessonsCollection EXCEPT ![id] = <<>>]
                            ELSE lessonsCollection
                       /\ resp' = LessonResponse("delete", 200,
                                                 "Delete lessons",
                                                 req.tokenEmail, 0)
    /\ UNCHANGED <<rev, userCollection, nextLessonId, proc, hist>>

(***************************************************************************)
(* PATCH /lesson/:id/comments (final and mid revisions)                    *)
(***************************************************************************)
Texts == {"t1"}

\* commentObj: the author is req.tokenEmail (the mid revision names the
\* fields userEmail and text); name and createdAt travel with the text
commentObj(email, text) == [email |-> email, comment |-> text]

\* comment arrays a creation body can carry
CommentBodies ==
    {[accessLevel |-> "free"], [comments |-> <<>>],
     [comments |-> <<commentObj("a@x", "t1")>>]}

\* faulty variant: the update adds to a set
pushComment_addToSet(arr, c) == ApplyArrayUpdate(arr, "$addToSet", c)

\* {$push: {comments: commentObj}}
pushComment(arr, c) == ApplyArrayUpdate(arr, "$push", c)

AddComment(p, TokenSet, cap) ==
    /\ rev \in {"final", "mid"}
    /\ proc[p].pc = "idle"
    /\ \E token \in TokenSet, id \in LessonIdParams(cap), text \in Texts :
         LET req == verifyJWT(token)
             c == commentObj(req.tokenEmail, text)
             Push(doc) == [doc EXCEPT !.comments = pushComment(@, c)]
         IN  IF ~req.ok
             THEN /\ resp' = LessonResponse("comment", 401,
                                            "Unauthorized Access!", Null, 0)
                  /\ UNCHANGED <<lessonsCollection, hist>>
             ELSE IF id = 0
                  THEN /\ resp' = LessonResponse("comment", 400,
                                     "Failed to add comment", Null, 0)
                       /\ UNCHANGED <<lessonsCollection, hist>>
                  ELSE /\ LessonExists(lessonsCollection, id)
                            => Len(lessonsCollection[id][1].comments)
                                 < MaxComments
                       /\ lessonsCollection' =
                            UpdateOneLesson(lessonsCollection, id, Push)
                       /\ hist' = IF LessonExists(lessonsCollection, id)
                                  THEN [hist EXCEPT !.submitted[id] =
                                          Append(@, c)]
                                  ELSE hist
                       /\ resp' = LessonResponse("comment", 200,
                                     "Comment added successfully",
                                     req.tokenEmail, id)
    /\ UNCHANGED <<rev, userCollection, nextLessonId, proc>>

(***************************************************************************)
(* GET /public-lessons                                                     *)
(***************************************************************************)
DefaultLimit == 6

\* query strings: category and visibility Null when absent
ListingQueries ==
    [category : {Null, "c1"}, visibility : {Null, "private"},
     search : {<<>>, <<"j">>}, skip : 0..1, limit : {<<>>, <<0>>, <<1>>}]

ListingBodies ==
    {[visibility |-> "public"], [visibility |-> "private"],
     [category |-> "c1"], [title |-> <<"J">>]}

FeaturedBodies == {[featured |-> TRUE], [featured |-> FALSE]}

ToLower(c) == IF c = "J" THEN "j" ELSE c

\* {$regex: search, $options: "i"} for a search string of plain letters:
\* the title contains it, whatever the case
regexI(search, title) ==
    \E i \in 0..(Len(title) - Len(search)) :
       \A j \in 1..Len(search) : ToLower(title[i + j]) = ToLower(search[j])

\* the filter the final revision builds from the query string
PublicQuery(q) ==
    [visibility |-> IF q.visibility # Null THEN q.visibility ELSE "public",
     category |-> q.category,
     title |-> q.search]

MatchesQuery(doc, query) ==
    /\ doc.visibility = query.visibility
    /\ query.category # Null => doc.category = query.category
    /\ query.title # <<>> => regexI(query.title, doc.title)

MatchingIds(lessons, query) ==
    {id \in 1..MaxLessons :
        LessonExists(lessons, id) /\ MatchesQuery(lessons[id][1], query)}

countDocuments(lessons, query) == Cardinality(MatchingIds(lessons, query))

\* sort({createdAt: -1}): the orders of the ids in which createdAt never
\* increases; documents with equal createdAt come in any order
SortedOrders(lessons, ids) ==
    {o \in [1..Cardinality(ids) -> ids] :
        /\ \A i, j \in DOMAIN o : i # j => o[i] # o[j]
        /\ \A i, j \in DOMAIN o :
              i < j => lessons[o[i]][1].createdAt >= lessons[o[j]][1].createdAt}

\* skip(Number(skip)).limit(Number(limit)); limit(0) sets no limit
Page(order, q) ==
    LET l == IF q.limit = <<>> THEN DefaultLimit ELSE q.limit[1]
        last == IF l = 0 \/ q.skip + l > Len(order) THEN Len(order)
                ELSE q.skip + l
    IN  SubSeq(order, q.skip + 1, last)

ListingResponse(code, q, total, result) ==
    [NoResp EXCEPT !.op = "publicLessons", !.code = code, !.query = q,
                   !.total = total, !.result = result]

\* final revision, up to the first await: the filter is built and counted
PublicLessons_countDocuments(p, Queries) ==
    /\ rev = "final"
    /\ proc[p].pc = "idle"
    /\ InFlight({"list_find"}) = 0
    /\ \E q \in Queries :
         proc' = [proc EXCEPT ![p] =
                    [Idle EXCEPT !.pc = "list_find", !.query = q,
                       !.total = countDocuments(lessonsCollection,
                                                PublicQuery(q))]]
    /\ resp' = NoResp
    /\ UNCHANGED <<rev, userCollection, lessonsCollection, nextLessonId, hist>>

\* final revision, second await: the page is read and the response sent
PublicLessons_find(p) ==
    /\ proc[p].pc = "list_find"
    /\ LET q == proc[p].query
       IN  \E order \in SortedOrders(lessonsCollection,
                         MatchingIds(lessonsCollection, PublicQuery(q))) :
              resp' = ListingResponse(200, q, proc[p].total, Page(order, q))
    /\ proc' = [proc EXCEPT ![p] = Idle]
    /\ UNCHANGED <<rev, userCollection, lessonsCollection, nextLessonId, hist>>

\* mid revision: find().sort({createdAt: -1}).toArray(), no filter, no total
PublicLessons_findAll(p) ==
    /\ rev = "mid"
    /\ proc[p].pc = "idle"
    /\ \E order \in SortedOrders(lessonsCollection,
                      {id \in 1..MaxLessons :
                          LessonExists(lessonsCollection, id)}) :
          resp' = ListingResponse(200, NoQuery, 0, order)
    /\ UNCHANGED <<rev, userCollection, lessonsCollection, nextLessonId,
                   proc, hist>>

(***************************************************************************)
(* PATCH /lessons/:id/featured (final revision): verifyJWT, verifyAdmin,   *)
(* then {$set: req.body}                                                   *)
(***************************************************************************)
SetFeatured_verify(p) ==
    /\ rev = "final"
    /\ verifyRoute(p, "featured", "adm_featured")

SetFeatured_updateOne(p, Bodies, cap) ==
    /\ proc[p].pc = "adm_featured"
    /\ \E id \in LessonIdParams(cap), body \in Bodies :
         LET Set(doc) == SetLesson(doc, body)
         IN  IF id = 0
             THEN /\ resp' = LessonResponse("featured", 400,
                                            "Failed to add  Like", proc[p].email, 0)
                  /\ UNCHANGED lessonsCollection
             ELSE /\ lessonsCollection' =
                       UpdateOneLesson(lessonsCollection, id, Set)
                  /\ resp' = LessonResponse("featured", 200,
                                            "Featured add successfully",
                                            proc[p].email, 0)
    /\ proc' = [proc EXCEPT ![p] = Idle]
    /\ UNCHANGED <<rev, userCollection, nextLessonId, hist>>

(***************************************************************************)
(* PATCH /lesson/:id/likes and PATCH /lesson/:id/favorites                 *)
(***************************************************************************)
ToggleOp(field) == IF field = "likes" THEN "like" ELSE "favorite"
TogglePc(field) == IF field = "likes" THEN "like_update" ELSE "fav_update"
ToggleMsg(field) ==
    IF field = "likes" THEN "Like add successfully"
    ELSE "added favorite successfully"
ToggleFailMsg(field) ==
    IF field = "likes" THEN "Failed to add  Like" ELSE "Failed to add favorite"

\* variant: the write decides on the membership stored when it is applied (an
\* atomic conditional update) and not on the update document built earlier
ToggleWrite_atomic(lessons, id, field, update, email) ==
    LET U(doc) ==
          [doc EXCEPT ![field] =
             ApplyArrayUpdate(doc[field], ToggleUpdate(doc[field], email), email)]
    IN  UpdateOneLesson(lessons, id, U)

\* the write of a toggle: updateOne({_id}, update) built from the earlier read
ToggleWrite(lessons, id, field, update, email) ==
    LET U(doc) ==
          [doc EXCEPT ![field] = ApplyArrayUpdate(doc[field], update, email)]
    IN  UpdateOneLesson(lessons, id, U)

\* what a toggle answers before it reads: 401, 400 for a malformed id, 404
\* for a lesson that does not exist; "" when it goes on
ToggleRefusal(req, lessons, id) ==
    IF ~req.ok THEN 401
    ELSE IF id = 0 THEN 400
    ELSE IF ~LessonExists(lessons, id) THEN 404
    ELSE 0

ToggleRefusalResponse(field, code, req, id) ==
    LessonResponse(ToggleOp(field), code,
                   CASE code = 401 -> "Unauthorized Access!"
                     [] code = 404 -> "Lesson not found"
                     [] OTHER -> ToggleFailMsg(field),
                   req.tokenEmail, id)

\* findOne({_id}); 404 if there is none; else build the update document
Toggle_findOne(p, field, TokenSet, cap) ==
    /\ rev = "final"
    /\ proc[p].pc = "idle"
    /\ \E token \in TokenSet, id \in LessonIdParams(cap) :
         LET req == verifyJWT(token)
             code == ToggleRefusal(req, lessonsCollection, id)
         IN  IF code # 0
             THEN /\ resp' = ToggleRefusalResponse(field, code, req, id)
                  /\ UNCHANGED proc
             ELSE /\ proc' = [proc EXCEPT ![p] =
                         [Idle EXCEPT
                            !.pc = TogglePc(field),
                            !.email = req.tokenEmail,
                            !.id = id,
                            !.update = ToggleUpdate(
                                lessonsCollection[id][1][field],
                                req.tokenEmail)]]
                  /\ resp' = NoResp
    /\ UNCHANGED <<rev, userCollection, lessonsCollection, nextLessonId, hist>>

\* updateOne({_id}, update); 200
Toggle_updateOne(p, field) ==
    /\ proc[p].pc = TogglePc(field)
    /\ lessonsCollection' =
         ToggleWrite(lessonsCollection, proc[p].id, field, proc[p].update,
                     proc[p].email)
    /\ resp' = [LessonResponse(ToggleOp(field), 200, ToggleMsg(field),
                               proc[p].email, proc[p].id)
                  EXCEPT !.raced = proc[p].raced]
    /\ proc' = [q \in Procs |->
                  IF q = p THEN Idle
                  ELSE IF /\ proc[q].pc = TogglePc(field)
                          /\ proc[q].id = proc[p].id
                          /\ proc[q].email = proc[p].email
                          /\ proc[q].update = proc[p].update
                       THEN [proc[q] EXCEPT !.raced = TRUE]
                       ELSE proc[q]]
    /\ UNCHANGED <<rev, userCollection, nextLessonId, hist>>

\* a toggle request with no other request's step between its read and its
\* write
Toggle_request(p, field, TokenSet, cap) ==
    /\ rev = "final"
    /\ proc[p].pc = "idle"
    /\ \E token \in TokenSet, id \in LessonIdParams(cap) :
         LET req == verifyJWT(token)
             code == ToggleRefusal(req, lessonsCollection, id)
         IN  IF code # 0
             THEN /\ resp' = ToggleRefusalResponse(field, code, req, id)
                  /\ UNCHANGED lessonsCollection
             ELSE LET arr == lessonsCollection[id][1][field]
                  IN  /\ lessonsCollection' =
                           ToggleWrite(lessonsCollection, id, field,
                                       ToggleUpdate(arr, req.tokenEmail),
                                       req.tokenEmail)
                      /\ resp' = [LessonResponse(ToggleOp(field), 200,
                                      ToggleMsg(field), req.tokenEmail, id)
                                    EXCEPT !.before = arr]
    /\ UNCHANGED <<rev, userCollection, nextLessonId, proc, hist>>

\* PATCH /lesson/:id/likes of the mid revision: one updateOne with
\* {$addToSet: {likes: email}}, no lookup before it
Like_addToSet(p, TokenSet, cap) ==
    /\ rev = "mid"
    /\ proc[p].pc = "idle"
    /\ \E token \in TokenSet, id \in LessonIdParams(cap) :
         LET req == verifyJWT(token)
         IN  IF ~req.ok \/ id = 0
             THEN /\ resp' = ToggleRefusalResponse("likes",
                                IF req.ok THEN 400 ELSE 401, req, id)
                  /\ UNCHANGED lessonsCollection
             ELSE /\ lessonsCollection' =
                       ToggleWrite(lessonsCollection, id, "likes",
                                   "$addToSet", req.tokenEmail)
                  /\ resp' = [LessonResponse("like", 200, ToggleMsg("likes"),
                                             req.tokenEmail, id)
                                EXCEPT !.before =
                                  IF LessonExists(lessonsCollection, id)
                                  THEN lessonsCollection[id][1].likes
                                  ELSE <<>>]
    /\ UNCHANGED <<rev, userCollection, nextLessonId, proc, hist>>

(***************************************************************************)
(* Specifications.  A handler of one collection never reads or writes the  *)
(* other one (verifyAdmin apart), so each specification runs the handlers  *)
(* of one concern with the request bodies that touch its fields.           *)
(***************************************************************************)
AdminDoc == [email |-> "a@x", role |-> "admin", isPremium |-> FALSE,
             transactionId |-> Missing]

InitUsers ==
    /\ rev = "final"
    /\ userCollection = <<AdminDoc>>
    /\ lessonsCollection = [id \in 1..MaxLessons |-> <<>>]
    /\ nextLessonId = 1
    /\ proc = [p \in Procs |-> Idle]
    /\ resp = NoResp
    /\ hist = NoHistory

\* identity: registration, profile and admin updates of email and role
NextUsers ==
    \E p \in Procs :
        \/ Register_findOne(p)
        \/ Register_insertOne(p, [email : Emails, isPremium : {FALSE}])
        \/ UpdateProfile(p, IdentityBodies)
        \/ AdminUpdateUser_verify(p)
        \/ AdminUpdateUser_updateOne(p, IdentityBodies)

SpecUsers == InitUsers /\ [][NextUsers]_vars

\* payment: reconciliation next to registration and profile updates
NextPay ==
    \E p \in Procs :
        \/ Register_findOne(p)
        \/ Register_insertOne(p, RegisterBodies)
        \/ UpdateProfile(p, PaymentBodies)
        \/ AdminUpdateUser_verify(p)
        \/ AdminUpdateUser_updateOne(p, PaymentBodies)
        \/ SessionStatus_findOne(p)
        \/ SessionStatus_updateOne(p)

SpecPay == InitUsers /\ [][NextPay]_vars

UserDoc == [email |-> "b@x", role |-> "user", isPremium |-> FALSE,
            transactionId |-> Missing]

InitLessons ==
    /\ rev = "final"
    /\ userCollection = <<AdminDoc, UserDoc>>
    /\ lessonsCollection = [id \in 1..MaxLessons |-> <<>>]
    /\ nextLessonId = 1
    /\ proc = [p \in Procs |-> Idle]
    /\ resp = NoResp
    /\ hist = NoHistory

\* the tokens of one principal, and the request without a token
TokensOfA == {t \in Tokens : t.kind = "absent" \/ t.email = "a@x"}

\* every principal with an email claim, and the request without a token
TokensWithEmail == {t \in Tokens : t.kind = "absent" \/ t.email # Null}

\* reactions: likes and favorites next to the handlers that write a lesson
NextReact ==
    \E p \in Procs :
        \/ CreateLesson(p, TokensOfA, ReactionBodies, MaxCreated)
        \/ UpdateLesson(p, TokensOfA, ReactionBodies, MaxCreated)
        \/ DeleteLesson(p, TokensOfA, MaxCreated)
        \/ \E field \in {"likes", "favorites"} :
              \/ Toggle_findOne(p, field, TokensOfA, MaxCreated)
              \/ Toggle_updateOne(p, field)

SpecReact == InitLessons /\ [][NextReact]_vars

\* the revisions that serve lessons
InitLessonRevisions ==
    /\ rev \in {"final", "mid"}
    /\ userCollection = <<AdminDoc, UserDoc>>
    /\ lessonsCollection = [id \in 1..MaxLessons |-> <<>>]
    /\ nextLessonId = 1
    /\ proc = [p \in Procs |-> Idle]
    /\ resp = NoResp
    /\ hist = NoHistory

\* the same requests run one after the other, by every principal with an
\* email, in the revisions that serve lessons
NextReactSeq ==
    \E p \in Procs :
        \/ CreateLesson(p, TokensOfA, ReactionBodies, MaxCreated)
        \/ UpdateLesson(p, TokensOfA, ReactionBodies, MaxCreated)
        \/ DeleteLesson(p, TokensOfA, MaxCreated)
        \/ \E field \in {"likes", "favorites"} :
              Toggle_request(p, field, TokensWithEmail, MaxCreated)
        \/ Like_addToSet(p, TokensWithEmail, MaxCreated)

SpecReactSeq == InitLessonRevisions /\ [][NextReactSeq]_vars

\* comments: add-comment next to creation and deletion
NextComments ==
    \E p \in Procs :
        \/ CreateLesson(p, Tokens, CommentBodies, MaxCreated)
        \/ DeleteLesson(p, Tokens, MaxCreated)
        \/ AddComment(p, Tokens, MaxCreated)

SpecComments == InitLessonRevisions /\ [][NextComments]_vars

\* listing: the public listing next to the handlers that write a lesson
NextListing ==
    \E p \in Procs :
        \/ CreateLesson(p, TokensOfA, ListingBodies, MaxCreated)
        \/ UpdateLesson(p, TokensOfA, ListingBodies, MaxCreated)
        \/ DeleteLesson(p, TokensOfA, MaxCreated)
        \/ PublicLessons_countDocuments(p, ListingQueries)
        \/ PublicLessons_find(p)
        \/ PublicLessons_findAll(p)

SpecListing == InitLessonRevisions /\ [][NextListing]_vars

\* featuring: the admin's route next to the handlers that write a lesson
NextFeatured ==
    \E p \in Procs :
        \/ CreateLesson(p, TokensOfA, FeaturedBodies, MaxCreated)
        \/ UpdateLesson(p, Tokens, FeaturedBodies, MaxCreated)
        \/ DeleteLesson(p, TokensOfA, MaxCreated)
        \/ SetFeatured_verify(p)
        \/ SetFeatured_updateOne(p, FeaturedBodies, MaxCreated)

SpecFeatured == InitLessons /\ [][NextFeatured]_vars

\* the admin gate in the three revisions, next to registration
InitRevisions ==
    /\ rev \in Revisions
    /\ userCollection = <<AdminDoc>>
    /\ lessonsCollection = [id \in 1..MaxLessons |-> <<>>]
    /\ nextLessonId = 1
    /\ proc = [p \in Procs |-> Idle]
    /\ resp = NoResp
    /\ hist = NoHistory

NextAdminGate ==
    \E p \in Procs :
        \/ Register_findOne(p)
        \/ Register_insertOne(p, [email : Emails, isPremium : {FALSE}])
        \/ AdminGate_verify(p)
        \/ AdminGate_handler(p)
        \/ AdminGate_findOneRejects(p)

SpecAdminGate == InitRevisions /\ [][NextAdminGate]_vars

\* role lookup in the three revisions, next to registration
NextRoleLookup ==
    \E p \in Procs :
        \/ Register_findOne(p)
        \/ Register_insertOne(p, RegisterBodies)
        \/ RoleLookup(p)

SpecRoleLookup == InitRevisions /\ [][NextRoleLookup]_vars

\* role updates in the three revisions, next to registration and the admin
\* gate; UpdateRole_updateOne is left out, no step ever enables it
NextUpdateRole ==
    \E p \in Procs :
        \/ Register_findOne(p)
        \/ Register_insertOne(p, [email : Emails, isPremium : {FALSE}])
        \/ AdminGate_verify(p)
        \/ AdminGate_handler(p)
        \/ UpdateRole_request(p)

SpecUpdateRole == InitRevisions /\ [][NextUpdateRole]_vars

(***************************************************************************)
(* Properties of the users collection                                      *)
(***************************************************************************)
HasEmail(users, e) == \E i \in 1..Len(users) : users[i].email = e
CountEmail(users, e) == Cardinality({i \in 1..Len(users) : users[i].email = e})

\* the step completes the handler of PATCH /user/:id, which runs only after
\* verifyAdmin let the request through
AdminHandlerStep ==
    \E p \in Procs : proc[p].pc = "adm_user" /\ proc'[p].pc = "idle"

\* C1: a user's role changes only in a step of a request that passed
\* verifyAdmin, and a created user has role "user"
C1_RoleOnlyByAdmin ==
    [][\A i \in 1..Len(userCollection') :
          /\ (i <= Len(userCollection)
                /\ userCollection'[i].role # userCollection[i].role)
               => AdminHandlerStep
          /\ i > Len(userCollection) => userCollection'[i].role = "user"]_vars

\* C2: the users collection holds at most one document per email
C2_UniqueEmail ==
    \A i, j \in 1..Len(userCollection) :
        i # j => userCollection[i].email # userCollection[j].email

\* C3: POST /users for an email that has a record answers 200 with that
\* record and writes nothing (it never goes on to insert); the insert of a
\* call answers 201, appends one record with that email and role "user",
\* leaves every stored record as it was, and, when no record of the email
\* was stored (calls one after the other), leaves exactly one
C3_RegisterIdempotent ==
    [][\A p \in Procs :
          /\ (resp'.op = "register" /\ resp'.code = 200)
               => /\ userCollection' = userCollection
                  /\ \E i \in 1..Len(userCollection) :
                        /\ userCollection[i].email = resp'.arg
                        /\ \A j \in 1..(i - 1) :
                              userCollection[j].email # resp'.arg
                        /\ resp'.doc = <<userCollection[i]>>
          /\ (proc[p].pc = "idle" /\ proc'[p].pc = "reg_insert")
               => /\ userCollection' = userCollection
                  /\ ~HasEmail(userCollection, proc'[p].email)
          /\ (proc[p].pc = "reg_insert" /\ proc'[p].pc = "idle")
               => /\ resp'.op = "register" /\ resp'.code = 201
                  /\ Len(userCollection') = Len(userCollection) + 1
                  /\ SubSeq(userCollection', 1, Len(userCollection))
                        = userCollection
                  /\ userCollection'[Len(userCollection')].email = proc[p].email
                  /\ userCollection'[Len(userCollection')].role = "user"
                  /\ ~HasEmail(userCollection, proc[p].email)
                       => CountEmail(userCollection', proc[p].email) = 1]_vars

\* C3 witness: a second registration of b@x was answered 200 with the stored
\* record
C3_Witness ==
    /\ resp.op = "register" /\ resp.code = 200 /\ resp.arg = "b@x"
    /\ resp.doc # <<>>
    /\ CountEmail(userCollection, "b@x") = 1

(***************************************************************************)
(* Properties of payment reconciliation                                    *)
(***************************************************************************)
\* the step is the first segment of a PATCH /session-status call for s
SessionCallStarts(s) ==
    /\ \A p \in Procs : ~(proc[p].pc = "ss_update" /\ proc'[p].pc = "idle")
    /\ \/ resp'.op = "session" /\ resp'.arg = s
       \/ \E p \in Procs : /\ proc[p].pc = "idle"
                            /\ proc'[p].pc = "ss_update"
                            /\ proc'[p].sess = s

\* C8: once a call for a paid session has set isPremium and transactionId on
\* the matching user, every later call for that session answers "Payment
\* already processed" and writes no user record
C8_ReplayRejected ==
    [][\A s \in hist.granted :
          SessionCallStarts(s)
             => /\ resp'.msg = "Payment already processed"
                /\ userCollection' = userCollection]_vars

\* C9: a call for a session that is not paid changes no user record and
\* sends no error response; "already processed" is sent only when a user
\* record's transactionId equals the session's transaction id
C9_UnpaidNoEffect ==
    [][\A s \in SessionIds :
          (resp'.op = "session" /\ resp'.arg = s /\ stripeRetrieve(s).found)
             => /\ stripeRetrieve(s).payment_status # "paid"
                    => /\ userCollection' = userCollection
                       /\ resp'.code < 400
                /\ resp'.msg = "Payment already processed"
                    => \E i \in 1..Len(userCollection) :
                          userCollection[i].transactionId
                            = stripeRetrieve(s).payment_intent]_vars

\* C20: the write of a PATCH /session-status call never looks again: every
\* call that passed the "already processed" check applies its update and
\* reports success, also when a concurrent call for the same session wrote
\* the transaction id in between (the response then has raced set), so two
\* concurrent calls for one paid session both pass, both write, both succeed
C20_BothCallsSucceed ==
    [][\A p \in Procs :
          (proc[p].pc = "ss_update" /\ proc'[p].pc = "idle")
             => LET session == stripeRetrieve(proc[p].sess)
                    MatchesEmail(u) == MatchEq(u.email, session.customer_email)
                    i == FirstIdx(userCollection, MatchesEmail)
                IN  /\ resp'.op = "session" /\ resp'.arg = proc[p].sess
                    /\ resp'.code = 200 /\ resp'.msg = "success"
                    /\ resp'.raced = AlreadyProcessed(userCollection, proc[p].sess)
                    /\ i # 0 => /\ userCollection'[i].isPremium = TRUE
                                /\ userCollection'[i].transactionId
                                     = session.payment_intent]_vars

\* the second of two concurrent calls for the paid session has answered
\* success: the first one's write was in the store when it wrote
C20_Witness ==
    /\ resp.op = "session" /\ resp.arg = "cs_paid"
    /\ resp.msg = "success" /\ resp.raced
    /\ "cs_paid" \in hist.granted
    /\ \E i \in 1..Len(userCollection) :
          /\ userCollection[i].email = "b@x"
          /\ userCollection[i].isPremium = TRUE
          /\ userCollection[i].transactionId = "pi_1"

(***************************************************************************)
(* Properties of likes and favorites                                       *)
(***************************************************************************)
Range(arr) == {arr[i] : i \in 1..Len(arr)}
ReactionFields == {"likes", "favorites"}

\* C5: two like (favorite) requests of the same principal on the same
\* existing lesson, one right after the other, leave the set of members as
\* the first one found it
C5_ToggleTwiceRestores ==
    [][\A field \in ReactionFields :
          (/\ resp.op = ToggleOp(field) /\ resp.code = 200
           /\ resp'.op = ToggleOp(field) /\ resp'.code = 200
           /\ resp'.id = resp.id /\ resp'.arg = resp.arg
           /\ resp.arg # Null
           /\ LessonExists(lessonsCollection, resp.id))
             => /\ LessonExists(lessonsCollection', resp.id)
                /\ Range(lessonsCollection'[resp.id][1][field])
                     = Range(resp.before)]_vars

\* the same, of the final revision alone
C5_FinalRevisionRestores ==
    [][rev = "final" => C5_ToggleTwiceRestores!1]_vars

\* C6: no lesson's likes or favorites holds an email more than once
C6_NoDuplicates ==
    \A id \in 1..MaxLessons, field \in ReactionFields :
        LessonExists(lessonsCollection, id)
          => LET arr == lessonsCollection[id][1][field]
             IN  \A i, j \in 1..Len(arr) : i # j => arr[i] # arr[j]

\* C7: when two toggles of the same principal on the same lesson have both
\* read before either writes, the second write leaves the membership the
\* opposite of what both read, where one after the other they restore it
C7_RacedTogglesDoNotRestore ==
    [][\A p \in Procs, field \in ReactionFields :
          (/\ proc[p].pc = TogglePc(field) /\ proc[p].raced
           /\ proc'[p].pc = "idle"
           /\ LessonExists(lessonsCollection', proc[p].id))
             => includes(lessonsCollection'[proc[p].id][1][field], proc[p].email)
                  = (proc[p].update = "$addToSet")]_vars

\* C7 witness: both of two interleaved likes by a@x added a@x
C7_Witness ==
    /\ resp.op = "like" /\ resp.code = 200 /\ resp.raced
    /\ LessonExists(lessonsCollection, resp.id)
    /\ includes(lessonsCollection[resp.id][1].likes, resp.arg)

(***************************************************************************)
(* Properties of the public listing and of the comments                    *)
(***************************************************************************)
\* C4: every lesson in the result of GET /public-lessons has visibility
\* "public", whatever the query parameters and the stored lessons
C4_OnlyPublicListed ==
    (resp.op = "publicLessons" /\ resp.code = 200)
      => \A i \in 1..Len(resp.result) :
            lessonsCollection[resp.result[i]][1].visibility = "public"

\* C10: an add-comment request on an existing lesson appends one comment at
\* the end of its comments, with the verified principal's email as author,
\* leaves the comments stored before in place and every other lesson as it
\* was; and after any interleaving of add-comment requests the comments of a
\* lesson are the ones it was created with followed by every submitted
\* comment, once each, in the order of the requests
C10_CommentAppended ==
    [][/\ (resp'.op = "comment" /\ resp'.code = 200
             /\ LessonExists(lessonsCollection, resp'.id))
          => LET old == lessonsCollection[resp'.id][1]
                 new == lessonsCollection'[resp'.id][1]
             IN  /\ LessonExists(lessonsCollection', resp'.id)
                 /\ Len(new.comments) = Len(old.comments) + 1
                 /\ SubSeq(new.comments, 1, Len(old.comments)) = old.comments
                 /\ new.comments[Len(new.comments)].email = resp'.arg
                 /\ new = [old EXCEPT !.comments = new.comments]
                 /\ \A id \in 1..MaxLessons :
                       id # resp'.id
                         => lessonsCollection'[id] = lessonsCollection[id]
       /\ \A id \in 1..MaxLessons :
             LessonExists(lessonsCollection', id)
               => lessonsCollection'[id][1].comments = hist'.submitted[id]
      ]_vars

\* two principals have commented on a lesson that was created with a comment
C10_Witness ==
    /\ resp.op = "comment" /\ resp.code = 200
    /\ LessonExists(lessonsCollection, resp.id)
    /\ LET c == lessonsCollection[resp.id][1].comments
       IN  /\ Len(c) = MaxComments
           /\ c[Len(c)].email = resp.arg
           /\ \E i \in 1..Len(c) : c[i].email # resp.arg

\* the limit a listing request asks for: the default when it gives none
AskedLimit(q) == IF q.limit = <<>> THEN DefaultLimit ELSE q.limit[1]

\* C11: a listing of the final revision returns at most limit lessons
\* (default 6), and its total is the number of stored lessons that match
\* its filters
C11_Pagination ==
    (rev = "final" /\ resp.op = "publicLessons" /\ resp.code = 200)
      => /\ Len(resp.result) <= AskedLimit(resp.query)
         /\ resp.total = countDocuments(lessonsCollection,
                                        PublicQuery(resp.query))

(***************************************************************************)
(* Properties of the middleware                                            *)
(***************************************************************************)
\* the routes mounted behind verifyJWT that the model runs
GuardedOps == {"profile", "adminUser", "create", "update", "delete",
               "featured", "like", "favorite", "comment"}

\* C12: a step of a route behind verifyJWT that answers 401 changes no
\* collection, and one that changes a collection belongs to a request whose
\* credential was accepted and to which a verified email was attached
C12_VerifiedBeforeHandler ==
    [][resp'.op \in GuardedOps
         => /\ resp'.code = 401
                 => <<userCollection, lessonsCollection>>'
                      = <<userCollection, lessonsCollection>>
            /\ <<userCollection, lessonsCollection>>'
                 # <<userCollection, lessonsCollection>>
                 => resp'.code # 401 /\ resp'.arg # Null]_vars

\* the first record with the email is an admin's
RecordIsAdmin(users, email) ==
    \E i \in 1..Len(users) :
       /\ users[i].email = email
       /\ users[i].role = "admin"
       /\ \A j \in 1..(i - 1) : users[j].email # email

\* C13: in every revision the admin gate lets a request through exactly
\* when the record with the email verifyJWT attached has role "admin", and
\* answers 403 otherwise
C13_AdminGateDecidesOnVerifiedEmail ==
    [][\A p \in Procs :
          /\ (proc[p].pc = "idle" /\ proc'[p].pc = "adm_gate")
               => RecordIsAdmin(userCollection, proc'[p].email)
          /\ (proc[p].pc = "idle" /\ resp'.op = "adminGate"
                /\ resp'.code = 403)
               => ~RecordIsAdmin(userCollection, resp'.arg)]_vars

(***************************************************************************)
(* Properties of the featured flag                                         *)
(***************************************************************************)
\* the step completes the handler of PATCH /lessons/:id/featured, which runs
\* only after verifyAdmin let the request through
FeaturedHandlerStep ==
    \E p \in Procs : proc[p].pc = "adm_featured" /\ proc'[p].pc = "idle"

\* C14: a lesson's featured flag is set at creation or changed only by the
\* handler behind verifyAdmin, never by the request of a principal whose
\* record is not an admin's
C14_FeaturedOnlyByAdmin ==
    [][\A id \in 1..MaxLessons :
          (/\ LessonExists(lessonsCollection', id)
           /\ lessonsCollection'[id][1].featured
                # (IF LessonExists(lessonsCollection, id)
                   THEN lessonsCollection[id][1].featured ELSE FALSE))
             => \/ FeaturedHandlerStep
                \/ RecordIsAdmin(userCollection, resp'.arg)]_vars

(***************************************************************************)
(* Properties of PATCH /users                                              *)
(***************************************************************************)
\* C15: an update-own-profile request changes no user record but the one
\* whose email is the email verifyJWT attached, whatever the accepted
\* credential (one without an email included) and the body
C15_ProfileUpdatesOwnRecordOnly ==
    [][resp'.op = "profile"
         => /\ Len(userCollection') = Len(userCollection)
            /\ \A i \in 1..Len(userCollection) :
                  userCollection'[i] # userCollection[i]
                    => userCollection[i].email = resp'.arg]_vars

(***************************************************************************)
(* Properties of a toggle on a lesson that is gone                         *)
(***************************************************************************)
\* C16: a like or favorite request of an authenticated principal that is
\* applied to a well-formed id under which no lesson is stored answers 404
\* "Lesson not found" and changes no collection, also when the lesson was
\* deleted between the request's read and its write
C16_ToggleOnMissingLesson ==
    [][\A field \in ReactionFields :
          (/\ resp'.op = ToggleOp(field)
           /\ resp'.code # 401
           /\ resp'.id \in 1..MaxLessons
           /\ ~LessonExists(lessonsCollection, resp'.id))
             => /\ resp'.code = 404
                /\ resp'.msg = "Lesson not found"
                /\ <<userCollection, lessonsCollection>>'
                     = <<userCollection, lessonsCollection>>]_vars

(***************************************************************************)
(* Properties of failures                                                  *)
(***************************************************************************)
\* C17: a failing call never takes the server down or leaves a request
\* without an answer, and the answer to it is JSON
C17_FailuresCaught ==
    /\ \A p \in Procs : proc[p].pc \notin {"down", "hung"}
    /\ resp.msg # HtmlBody

(***************************************************************************)
(* Properties of the role lookup                                           *)
(***************************************************************************)
\* C18: a role lookup answers 200 and changes nothing; for an email without
\* a record its body is role "user" and isPremium false, and for an email
\* with a record the role and the premium flag of that record
C18_RoleLookup ==
    [][resp'.op = "roleLookup"
         => LET body == resp'.doc[1]
                Has(i) == userCollection[i].email = resp'.arg
            IN  /\ resp'.code = 200
                /\ <<userCollection, lessonsCollection>>'
                     = <<userCollection, lessonsCollection>>
                /\ DOMAIN body = {"role", "isPremium"}
                /\ IF \E i \in 1..Len(userCollection) : Has(i)
                   THEN \E i \in 1..Len(userCollection) :
                           /\ Has(i)
                           /\ body.role = userCollection[i].role
                           /\ body.isPremium = userCollection[i].isPremium
                   ELSE body.role = "user" /\ body.isPremium = FALSE]_vars

(***************************************************************************)
(* Properties of PATCH /users/:id/role                                     *)
(***************************************************************************)
\* C19: a PATCH /users/:id/role request of a principal whose record is an
\* admin's is not turned away; the handler sets the role of the user of the
\* id to the role in the body and changes nothing else; a request that is
\* turned away changes nothing
C19_AdminSetsRole ==
    [][resp'.op = "updateRole"
         => IF resp'.code = 200
            THEN /\ Len(userCollection') = Len(userCollection)
                 /\ \A i \in 1..Len(userCollection) :
                       userCollection'[i] =
                         IF i = resp'.id
                         THEN [userCollection[i] EXCEPT
                                 !.role = resp'.doc[1].role]
                         ELSE userCollection[i]
            ELSE /\ userCollection' = userCollection
                 /\ ~RecordIsAdmin(userCollection, resp'.arg)]_vars

(***************************************************************************)
(* Properties of the premium flag                                          *)
(***************************************************************************)
\* the step is the write of a PATCH /session-status call for a paid session
\* whose customer email is email
PaidSessionWrite(email) ==
    \E p \in Procs :
       /\ proc[p].pc = "ss_update" /\ proc'[p].pc = "idle"
       /\ stripeRetrieve(proc[p].sess).payment_status = "paid"
       /\ stripeRetrieve(proc[p].sess).customer_email = email

\* C21: a user record becomes premium (a record is inserted with isPremium
\* true, or isPremium of a record turns true) only in the write of a PATCH
\* /session-status call for a paid session with that user's email as customer
\* email, or in a request of an admin (the handler of PATCH /user/:id, or a
\* profile update whose principal has role admin); no register or profile
\* update of another principal makes a user premium
C21_PremiumOnlyByPaidSession ==
    [][\A i \in 1..Len(userCollection') :
          (/\ userCollection'[i].isPremium = TRUE
           /\ i <= Len(userCollection) => userCollection[i].isPremium # TRUE)
             => \/ PaidSessionWrite(userCollection'[i].email)
                \/ AdminHandlerStep
                \/ /\ resp'.op = "profile"
                   /\ RecordIsAdmin(userCollection, resp'.arg)]_vars

====
